---- MODULE Spec2Model ----
(***************************************************************************)
(* Behavioural event segmentation of a curve-tracing run:                  *)
(* process_events of code/timeevents/curvetracing.py.                      *)
(*                                                                         *)
(* The event log is revealed one row at a time.  The time of its first     *)
(* MRI_Trigger/Received row is read before the scan (lines 62-64) and      *)
(* subtracted from the time of every row (line 65); every other row may    *)
(* carry any time.  Times are whole seconds, amplitudes are hundredths.    *)
(* An optional value (Python None) is the empty sequence, a present value  *)
(* x is <<x>>.                                                             *)
(*                                                                         *)
(* Row times are not assumed to be in log order: pandas reads whatever the *)
(* file holds, and the scan never compares two rows' times.                *)
(*                                                                         *)
(* A log draws its rows from one family of row kinds: short logs over the  *)
(* less usual payloads, task labels and event types after the opening of a *)
(* trial ("any"), longer logs over the rows of a curve-tracing trial       *)
(* ("trial"), over a trial with an unknown target or response              *)
(* ("oddtrial"), over the fixation, hand and reward rows ("aux"), or,      *)
(* with times that never decrease in log order, over the rows that open    *)
(* and close spans ("ordered").  The logs of a family share the clock      *)
(* reading of their first trigger row.                                     *)
(* An exception discards the frame: every local returns to its initial     *)
(* value and nothing is returned.                                          *)
(***************************************************************************)
EXTENDS Integers, Sequences, FiniteSets, TLC

VARIABLES
    pc,                     \* "start" | "scan" | "done" | "failed"
    error,                  \* the exception that ended the call, or "none"
    raised_at,              \* the row the loop was at when it was raised
    family,                 \* the vocabulary the rows of the log come from
    log_has_trigger,        \* the filter of lines 62-63 selects some row
    seen_trigger,           \* the first trigger row has been scanned
    nrows,                  \* rows scanned so far
    start_time_s,           \* the time of the first trigger row, line 64
    file_time_s,            \* the time the file holds for the row scanned last
    event,                  \* the row scanned last (the loop variable)
    trial_mark,             \* history: the number of PreSwitchCurves events
                            \* when the last TRIAL_END row was scanned
    fixation_rows,          \* history: the numbers of Fixation rows scanned
                            \* with payload 'In' and with payload 'Out'
    curr_state,
    curve_target,
    curve_stim_on,
    curve_response,
    curve_switched,
    fixation_stim_on,
    response_cues_on,
    began_fixation,
    has_ManualRewardField,
    last_correct_s,
    split_ev,
    TR,                     \* the arguments read at lines 189-191
    in_nvols,
    cond_events,            \* the returned triple (line 206)
    end_time_s,
    nvols

vars == <<pc, error, raised_at, family, log_has_trigger, seen_trigger, nrows,
          start_time_s, file_time_s, event, trial_mark, fixation_rows,
          curr_state, curve_target, curve_stim_on, curve_response,
          curve_switched, fixation_stim_on, response_cues_on, began_fixation,
          has_ManualRewardField, last_correct_s, split_ev,
          TR, in_nvols, cond_events, end_time_s, nvols>>

locals == <<curr_state, curve_target, curve_stim_on, curve_response,
            curve_switched, fixation_stim_on, response_cues_on,
            began_fixation, has_ManualRewardField, last_correct_s, split_ev>>

outputs == <<TR, in_nvols, cond_events, end_time_s, nvols>>

----------------------------------------------------------------------------
(* Bounds of the model *)

MaxRowsAny == 3
MaxRowsTrial == 6
MaxRowsOdd == 5
MaxRowsAux == 4
MaxRowsOrdered == 4
TimeStep == 20
MaxVols == 3
RecordLag == 1

Times == { 0 - TimeStep, 0, TimeStep }
TRs == {2, 7}
NVols == {1, MaxVols}

----------------------------------------------------------------------------
(* Program constants *)

InitialLastCorrect == -15
PostHocMargin == 15
DefaultAmplitude == 100
LegacyManualAmplitude == 4

None == <<>>
Some(x) == <<x>>
Get(o) == o[1]

CondKeys ==
    { "AttendUL_COR", "AttendDL_COR", "AttendUR_COR", "AttendDR_COR",
      "AttendCenter_COR", "CurveFalseHit", "CurveNoResponse",
      "CurveFixationBreak", "CurveNotCOR", "PreSwitchCurves", "ResponseCues",
      "HandLeft", "HandRight", "Reward", "FixationTask", "Fixating" }

NotCorKeys == { "CurveFalseHit", "CurveNoResponse", "CurveFixationBreak" }

AttendKeys ==
    { "AttendUL_COR", "AttendDL_COR", "AttendUR_COR", "AttendDR_COR",
      "AttendCenter_COR" }

EmptySplitEv == [k \in CondKeys |-> <<>>]

\* the stop time stored as the duration
Event_StopAsDuration(start_s, stop_s) ==
    [time_s |-> start_s, dur_s |-> stop_s, event_num |-> 1,
     amplitude |-> DefaultAmplitude]

\* Event(start_s, stop_s): a span, default amplitude
Event(start_s, stop_s) ==
    [time_s |-> start_s, dur_s |-> stop_s - start_s, event_num |-> 1,
     amplitude |-> DefaultAmplitude]

\* Event(start_s, amplitude=a): instantaneous
InstantEvent(start_s, a) ==
    [time_s |-> start_s, dur_s |-> 0, event_num |-> 1, amplitude |-> a]

\* the payload ignored: the default amplitude
FloatOf_Default(s) == DefaultAmplitude

\* the conversion of a reward payload to a float (hundredths)
FloatOf(s) ==
    CASE s = "0.04" -> 4
      [] s = "0.1" -> 10
      [] s = "0.5" -> 50
      [] s = "1" -> 100

\* the characters that str.lower() returns as they are, among the printable
\* characters of ASCII and Latin-1
UncasedChars ==
    " !\"#$%&'()*+,-./0123456789:;<=>?@"
        \o "[\\]^_abcdefghijklmnopqrstuvwxyz{|}~"
        \o "¡¢£¤¥¦§¨©ª«¬®¯°±²³´µ¶·¸¹º»¼½¾¿×ßàáâãäåæçèéêëìíîïðñòóôõö÷øùúûüýþÿ"

Uncased == { SubSeq(UncasedChars, i, i) : i \in 1..Len(UncasedChars) }

\* str.lower() on one character of ASCII or Latin-1: a capital letter gives
\* its small letter, a character of Uncased itself.  It is defined on these
\* characters only: it has no value on a character outside them.
LowerChar(c) ==
    CASE c = "A" -> "a" [] c = "B" -> "b" [] c = "C" -> "c"
      [] c = "D" -> "d" [] c = "E" -> "e" [] c = "F" -> "f"
      [] c = "G" -> "g" [] c = "H" -> "h" [] c = "I" -> "i"
      [] c = "J" -> "j" [] c = "K" -> "k" [] c = "L" -> "l"
      [] c = "M" -> "m" [] c = "N" -> "n" [] c = "O" -> "o"
      [] c = "P" -> "p" [] c = "Q" -> "q" [] c = "R" -> "r"
      [] c = "S" -> "s" [] c = "T" -> "t" [] c = "U" -> "u"
      [] c = "V" -> "v" [] c = "W" -> "w" [] c = "X" -> "x"
      [] c = "Y" -> "y" [] c = "Z" -> "z" [] c = "À" -> "à"
      [] c = "Á" -> "á" [] c = "Â" -> "â" [] c = "Ã" -> "ã"
      [] c = "Ä" -> "ä" [] c = "Å" -> "å" [] c = "Æ" -> "æ"
      [] c = "Ç" -> "ç" [] c = "È" -> "è" [] c = "É" -> "é"
      [] c = "Ê" -> "ê" [] c = "Ë" -> "ë" [] c = "Ì" -> "ì"
      [] c = "Í" -> "í" [] c = "Î" -> "î" [] c = "Ï" -> "ï"
      [] c = "Ð" -> "ð" [] c = "Ñ" -> "ñ" [] c = "Ò" -> "ò"
      [] c = "Ó" -> "ó" [] c = "Ô" -> "ô" [] c = "Õ" -> "õ"
      [] c = "Ö" -> "ö" [] c = "Ø" -> "ø" [] c = "Ù" -> "ù"
      [] c = "Ú" -> "ú" [] c = "Û" -> "û" [] c = "Ü" -> "ü"
      [] c = "Ý" -> "ý" [] c = "Þ" -> "þ"
      [] c \in Uncased -> c

\* str.lower(), line 120: every character of the label lowered
RECURSIVE Lower(_)
Lower(task) ==
    IF Len(task) = 0 THEN ""
    ELSE LowerChar(SubSeq(task, 1, 1)) \o Lower(SubSeq(task, 2, Len(task)))

Min(a, b) == IF a <= b THEN a ELSE b

\* a quotient rounded down instead of toward zero
IntDiv_Floor(x, y) == x \div y

\* int(x / y) of Python for y > 0: truncation toward zero
IntDiv(x, y) == IF x >= 0 THEN x \div y ELSE 0 - ((0 - x) \div y)

----------------------------------------------------------------------------
(* The rows of the event log *)

\* a row of the file; its record time is RecordLag after its time
Row(task, ev, info, t) ==
    [task |-> task, event |-> ev, info |-> info, time_s |-> t,
     record_time_s |-> t + RecordLag]

\* the rows of a trial of a curve-tracing task
TrialKinds ==
    { <<"Curve tracing", "MRI_Trigger", "Received">>,
      <<"Curve tracing", "TargetLoc", "UL">>,
      <<"Curve tracing", "TargetLoc", "DR">>,
      <<"Curve tracing", "NewState", "TRIAL_END">>,
      <<"Curve tracing", "NewState", "PRESWITCH">>,
      <<"Curve tracing", "NewState", "SWITCHED">>,
      <<"Curve tracing", "NewState", "POSTSWITCH">>,
      <<"Curve tracing", "ResponseGiven", "CORRECT">>,
      <<"Curve tracing", "ResponseGiven", "INCORRECT">>,
      <<"Curve tracing", "ResponseGiven", "FixationBreak">> }

\* a trial with a target or a response outside the vocabulary
OddTrialKinds ==
    { <<"Curve tracing", "MRI_Trigger", "Received">>,
      <<"Curve tracing", "TargetLoc", "UL">>,
      <<"Curve tracing", "TargetLoc", "Nowhere">>,
      <<"Curve tracing", "NewState", "PRESWITCH">>,
      <<"Curve tracing", "NewState", "POSTSWITCH">>,
      <<"Curve tracing", "ResponseGiven", "CORRECT">>,
      <<"Curve tracing", "ResponseGiven", "Early">> }

\* fixation, fixation task, hand and reward rows
AuxKinds ==
    { <<"Curve tracing", "MRI_Trigger", "Received">>,
      <<"Curve tracing", "NewState", "TRIAL_END">>,
      <<"Fixation", "NewState", "FIXATION_PERIOD">>,
      <<"Fixation", "NewState", "POSTFIXATION">>,
      <<"Curve tracing", "Fixation", "In">>,
      <<"Curve tracing", "Fixation", "Out">>,
      <<"Curve tracing", "Response_Initiate", "Left">>,
      <<"Curve tracing", "ResponseReward", "0.1">>,
      <<"Curve tracing", "ManualReward", "0.5">>,
      <<"Curve tracing", "Reward", "Manual">> }

\* the rows that open a trial
OpeningKinds ==
    { <<"Curve tracing", "MRI_Trigger", "Received">>,
      <<"Curve tracing", "TargetLoc", "UL">>,
      <<"Curve tracing", "NewState", "PRESWITCH">> }

\* the remaining payloads, task labels and event types
OtherKinds ==
    { <<"Curve tracing", "MRI_Trigger", "Sent">>,
      <<"Control CT", "NewState", "POSTSWITCH">>,
      <<"Catch CT", "NewState", "POSTSWITCH">>,
      <<"KEEP BUSY", "NewState", "POSTSWITCH">>,
      <<"Fixation", "NewState", "POSTSWITCH">>,
      <<"Curve Tracing", "NewState", "POSTSWITCH">>,
      <<"Curve tracing", "NewState", "FIXATION_PERIOD">>,
      <<"Curve tracing", "NewState", "POSTFIXATION">>,
      <<"Curve tracing", "Fixation", "Lost">>,
      <<"Curve tracing", "Response_Initiate", "Right">>,
      <<"Curve tracing", "Response_Initiate", "Both">>,
      <<"Curve tracing", "TaskReward", "0.1">>,
      <<"Curve tracing", "Reward", "Auto">> }

\* the rows that open and close spans, and one reward
OrderedKinds ==
    { <<"Curve tracing", "MRI_Trigger", "Received">>,
      <<"Curve tracing", "TargetLoc", "UL">>,
      <<"Curve tracing", "NewState", "TRIAL_END">>,
      <<"Curve tracing", "NewState", "PRESWITCH">>,
      <<"Curve tracing", "NewState", "SWITCHED">>,
      <<"Curve tracing", "NewState", "POSTSWITCH">>,
      <<"Curve tracing", "ResponseGiven", "CORRECT">>,
      <<"Fixation", "NewState", "FIXATION_PERIOD">>,
      <<"Fixation", "NewState", "POSTFIXATION">>,
      <<"Curve tracing", "Fixation", "In">>,
      <<"Curve tracing", "Fixation", "Out">>,
      <<"Curve tracing", "Response_Initiate", "Left">>,
      <<"Curve tracing", "ResponseReward", "0.1">> }

Families == { "any", "trial", "oddtrial", "aux", "ordered" }

KindsOf(f) ==
    CASE f = "trial" -> TrialKinds
      [] f = "oddtrial" -> OddTrialKinds
      [] f = "aux" -> AuxKinds
      [] f = "ordered" -> OrderedKinds
      [] OTHER -> OpeningKinds \cup OtherKinds

MaxRowsOf(f) ==
    CASE f = "trial" -> MaxRowsTrial
      [] f = "oddtrial" -> MaxRowsOdd
      [] f = "aux" -> MaxRowsAux
      [] f = "ordered" -> MaxRowsOrdered
      [] OTHER -> MaxRowsAny

\* the time the file holds for the first trigger row of a log of family f
TriggerTimeOf(f) ==
    CASE f = "trial" -> 0
      [] f = "oddtrial" -> 0 - TimeStep
      [] f = "aux" -> 2 * TimeStep
      [] OTHER -> TimeStep

\* the times the file may hold for a row
FileTimes(f) == { TriggerTimeOf(f) + t : t \in Times }

IsTrigger(row) == row.event = "MRI_Trigger" /\ row.info = "Received"

----------------------------------------------------------------------------
(* One iteration of the scan, lines 68-182 *)

\* every Reward row taken as the legacy manual reward
Branch_AnyRewardIsManual(row) ==
    IF row.event = "TargetLoc" THEN "TargetLoc"
    ELSE IF row.event = "NewState" /\ row.info = "TRIAL_END"
        THEN "TRIAL_END"
    ELSE IF row.event = "NewState" /\ row.info = "PRESWITCH"
        THEN "PRESWITCH"
    ELSE IF row.task = "Fixation" /\ row.event = "NewState"
            /\ row.info = "FIXATION_PERIOD"
        THEN "FIXATION_PERIOD"
    ELSE IF row.task = "Fixation" /\ row.event = "NewState"
            /\ row.info = "POSTFIXATION"
        THEN "POSTFIXATION"
    ELSE IF row.event = "NewState" /\ row.info = "SWITCHED"
        THEN "SWITCHED"
    ELSE IF row.event = "NewState" /\ row.info = "POSTSWITCH"
            /\ row.task # "Fixation"
        THEN "POSTSWITCH"
    ELSE IF row.event = "ResponseGiven" /\ curve_response = None
        THEN "ResponseGiven"
    ELSE IF row.event = "Response_Initiate" THEN "Response_Initiate"
    ELSE IF row.event = "ResponseReward" \/ row.event = "TaskReward"
        THEN "AutoReward"
    ELSE IF row.event = "ManualReward" THEN "ManualReward"
    ELSE IF row.event = "Reward" THEN "LegacyManualReward"
    ELSE "none"

\* the arm of the if/elif chain of lines 85-182 that the row takes
Branch(row) ==
    IF row.event = "TargetLoc" THEN "TargetLoc"
    ELSE IF row.event = "NewState" /\ row.info = "TRIAL_END"
        THEN "TRIAL_END"
    ELSE IF row.event = "NewState" /\ row.info = "PRESWITCH"
        THEN "PRESWITCH"
    ELSE IF row.task = "Fixation" /\ row.event = "NewState"
            /\ row.info = "FIXATION_PERIOD"
        THEN "FIXATION_PERIOD"
    ELSE IF row.task = "Fixation" /\ row.event = "NewState"
            /\ row.info = "POSTFIXATION"
        THEN "POSTFIXATION"
    ELSE IF row.event = "NewState" /\ row.info = "SWITCHED"
        THEN "SWITCHED"
    ELSE IF row.event = "NewState" /\ row.info = "POSTSWITCH"
            /\ row.task # "Fixation"
        THEN "POSTSWITCH"
    ELSE IF row.event = "ResponseGiven" /\ curve_response = None
        THEN "ResponseGiven"
    ELSE IF row.event = "Response_Initiate" THEN "Response_Initiate"
    ELSE IF row.event = "ResponseReward" \/ row.event = "TaskReward"
        THEN "AutoReward"
    ELSE IF row.event = "ManualReward" THEN "ManualReward"
    ELSE IF row.event = "Reward" /\ row.info = "Manual"
        THEN "LegacyManualReward"
    ELSE "none"

\* every task label compared exactly
TaskKnown_ExactOnly(task) ==
    \/ task = "Curve tracing"
    \/ task = "Control CT"
    \/ task = "Catch CT"
    \/ task = "Keep busy"

\* the assertion of lines 117-121
TaskKnown(task) ==
    \/ task = "Curve tracing"
    \/ task = "Control CT"
    \/ task = "Catch CT"
    \/ Lower(task) = Lower("Keep busy")

\* a correct trial filed under a fixed target
EventType_FixedTarget ==
    IF curve_response = Some("INCORRECT") THEN "CurveFalseHit"
    ELSE IF curve_response = None
        THEN IF curve_switched THEN "CurveNoResponse"
             ELSE "CurveFixationBreak"
    ELSE IF curve_response = Some("FixationBreak") THEN "CurveFixationBreak"
    ELSE "AttendUL_COR"

\* the switched flag read the wrong way round
EventType_SwitchedInverted ==
    IF curve_response = Some("INCORRECT") THEN "CurveFalseHit"
    ELSE IF curve_response = None
        THEN IF curve_switched THEN "CurveFixationBreak"
             ELSE "CurveNoResponse"
    ELSE IF curve_response = Some("FixationBreak") THEN "CurveFixationBreak"
    ELSE IF curve_target = None THEN "AttendNone_COR"
    ELSE "Attend" \o Get(curve_target) \o "_COR"

\* lines 128-144: the bucket of the trial's outcome
EventType ==
    IF curve_response = Some("INCORRECT") THEN "CurveFalseHit"
    ELSE IF curve_response = None
        THEN IF curve_switched THEN "CurveNoResponse"
             ELSE "CurveFixationBreak"
    ELSE IF curve_response = Some("FixationBreak") THEN "CurveFixationBreak"
    ELSE IF curve_target = None THEN "AttendNone_COR"
    ELSE "Attend" \o Get(curve_target) \o "_COR"

\* lines 141-144: the else arm, taken as a correct trial
TakenAsCorrect ==
    /\ curve_response # Some("INCORRECT")
    /\ curve_response # None
    /\ curve_response # Some("FixationBreak")

\* the resolution without the assertion of lines 143-144
PostSwitchError_AnyResponseCorrect(row) ==
    IF ~TaskKnown(row.task) THEN "AssertTask"
    ELSE IF curve_stim_on = None THEN "AssertStimOn"
    ELSE IF EventType \notin CondKeys THEN "KeyError"
    ELSE "none"

\* the exception a POSTSWITCH resolution raises, lines 117-146
PostSwitchError(row) ==
    IF ~TaskKnown(row.task) THEN "AssertTask"
    ELSE IF curve_stim_on = None THEN "AssertStimOn"
    ELSE IF TakenAsCorrect /\ curve_response # Some("CORRECT")
        THEN "AssertResponse"
    ELSE IF EventType \notin CondKeys THEN "KeyError"
    ELSE "none"

\* the row's exception without the assertion of line 98
RowError_NoTargetCheck(row) ==
    IF row.event = "Fixation" /\ row.info # "Out" /\ row.info # "In"
        THEN "AssertFixationInfo"
    ELSE IF Branch(row) = "POSTFIXATION" /\ fixation_stim_on = None
        THEN "TypeError"
    ELSE IF Branch(row) = "POSTSWITCH" THEN PostSwitchError(row)
    ELSE IF Branch(row) = "Response_Initiate"
            /\ ("Hand" \o row.info) \notin CondKeys
        THEN "KeyError"
    ELSE IF Branch(row) = "LegacyManualReward" /\ has_ManualRewardField
        THEN "AssertManualReward"
    ELSE "none"

\* the exception the row raises, or "none"
RowError(row) ==
    IF row.event = "Fixation" /\ row.info # "Out" /\ row.info # "In"
        THEN "AssertFixationInfo"
    ELSE IF Branch(row) = "PRESWITCH" /\ curve_target = None
        THEN "AssertTarget"
    ELSE IF Branch(row) = "POSTFIXATION" /\ fixation_stim_on = None
        THEN "TypeError"
    ELSE IF Branch(row) = "POSTSWITCH" THEN PostSwitchError(row)
    ELSE IF Branch(row) = "Response_Initiate"
            /\ ("Hand" \o row.info) \notin CondKeys
        THEN "KeyError"
    ELSE IF Branch(row) = "LegacyManualReward" /\ has_ManualRewardField
        THEN "AssertManualReward"
    ELSE "none"

\* the event put at the head of the bucket
Emit_Prepend(ev, key, e) == [ev EXCEPT ![key] = <<e>> \o @]

Emit(ev, key, e) == [ev EXCEPT ![key] = Append(@, e)]

\* an open interval closed by the next Fixation row, In or Out
FixationEmit_ClosedByIn(ev, row) ==
    IF row.event = "Fixation" /\ began_fixation # None
        THEN Emit(ev, "Fixating", Event(Get(began_fixation), row.time_s))
    ELSE ev

\* lines 75-78
FixationEmit(ev, row) ==
    IF row.event = "Fixation" /\ row.info = "Out"
            /\ began_fixation # None
        THEN Emit(ev, "Fixating", Event(Get(began_fixation), row.time_s))
    ELSE ev

\* the resolution without the catch-all duplicate of lines 147-151
PostSwitchEmit_NoCatchAll(ev, row) ==
    LET span == Event(Get(curve_stim_on), row.time_s)
        e1 == Emit(ev, "PreSwitchCurves", span)
        e2 == Emit(e1, EventType, span)
    IN  IF response_cues_on # None
            THEN Emit(e2, "ResponseCues",
                      Event(Get(response_cues_on), row.time_s))
            ELSE e2

\* the response cues filed for correct trials only
PostSwitchEmit_CuesWhenCorrect(ev, row) ==
    LET span == Event(Get(curve_stim_on), row.time_s)
        e1 == Emit(ev, "PreSwitchCurves", span)
        e2 == Emit(e1, EventType, span)
        e3 == IF EventType \in NotCorKeys
                  THEN Emit(e2, "CurveNotCOR", span)
                  ELSE e2
    IN  IF response_cues_on # None /\ TakenAsCorrect
            THEN Emit(e3, "ResponseCues",
                      Event(Get(response_cues_on), row.time_s))
            ELSE e3

\* lines 125-157
PostSwitchEmit(ev, row) ==
    LET span == Event(Get(curve_stim_on), row.time_s)
        e1 == Emit(ev, "PreSwitchCurves", span)
        e2 == Emit(e1, EventType, span)
        e3 == IF EventType \in NotCorKeys
                  THEN Emit(e2, "CurveNotCOR", span)
                  ELSE e2
    IN  IF response_cues_on # None
            THEN Emit(e3, "ResponseCues",
                      Event(Get(response_cues_on), row.time_s))
            ELSE e3

\* the appends of the if/elif chain
ChainEmit(ev, row) ==
    CASE Branch(row) = "POSTFIXATION" ->
            Emit(ev, "FixationTask",
                 Event(Get(fixation_stim_on), row.time_s))
      [] Branch(row) = "POSTSWITCH" -> PostSwitchEmit(ev, row)
      [] Branch(row) = "Response_Initiate" ->
            Emit(ev, "Hand" \o row.info, InstantEvent(row.time_s,
                                                        DefaultAmplitude))
      [] Branch(row) = "AutoReward" ->
            Emit(ev, "Reward", InstantEvent(row.time_s, FloatOf(row.info)))
      [] Branch(row) = "ManualReward" ->
            Emit(ev, "Reward", InstantEvent(row.time_s, FloatOf(row.info)))
      [] Branch(row) = "LegacyManualReward" ->
            Emit(ev, "Reward",
                 InstantEvent(row.time_s, LegacyManualAmplitude))
      [] OTHER -> ev

\* the rows before the first trigger row emit nothing
Next_split_ev_AfterTriggerOnly(row) ==
    IF seen_trigger \/ IsTrigger(row)
        THEN ChainEmit(FixationEmit(split_ev, row), row)
    ELSE split_ev

Next_split_ev(row) == ChainEmit(FixationEmit(split_ev, row), row)

Next_curr_state(row) ==
    IF row.event = "NewState" THEN Some(row.info) ELSE curr_state

\* the switched flag left out of the reset of lines 88-95
Next_curve_switched_NotCleared(row) ==
    IF row.event = "NewState" /\ row.info = "SWITCHED" THEN TRUE
    ELSE curve_switched

Next_curve_switched(row) ==
    IF Branch(row) = "TRIAL_END" THEN FALSE
    ELSE IF row.event = "NewState" /\ row.info = "SWITCHED" THEN TRUE
    ELSE curve_switched

\* an Out row that leaves the fixation interval open
Next_began_fixation_NotClosed(row) ==
    IF row.event = "Fixation" /\ row.info # "Out" THEN Some(row.time_s)
    ELSE began_fixation

\* the fixation start cleared with the per-trial fields
Next_began_fixation_ClearedAtTrialEnd(row) ==
    IF row.event = "Fixation"
        THEN IF row.info = "Out" THEN None ELSE Some(row.time_s)
    ELSE IF Branch(row) = "TRIAL_END" THEN None
    ELSE began_fixation

Next_began_fixation(row) ==
    IF row.event = "Fixation"
        THEN IF row.info = "Out" THEN None ELSE Some(row.time_s)
    ELSE began_fixation

Next_curve_target(row) ==
    IF Branch(row) = "TargetLoc" THEN Some(row.info)
    ELSE IF Branch(row) = "TRIAL_END" THEN None
    ELSE curve_target

Next_curve_stim_on(row) ==
    IF Branch(row) = "PRESWITCH" THEN Some(row.time_s)
    ELSE IF Branch(row) = "TRIAL_END" THEN None
    ELSE curve_stim_on

\* every ResponseGiven row overwrites the recorded outcome
Next_curve_response_Overwrite(row) ==
    IF row.event = "ResponseGiven" THEN Some(row.info)
    ELSE IF Branch(row) = "TRIAL_END" THEN None
    ELSE curve_response

Next_curve_response(row) ==
    IF Branch(row) = "ResponseGiven" THEN Some(row.info)
    ELSE IF Branch(row) = "TRIAL_END" THEN None
    ELSE curve_response

Next_fixation_stim_on(row) ==
    IF Branch(row) = "FIXATION_PERIOD" THEN Some(row.time_s)
    ELSE IF Branch(row) = "TRIAL_END" THEN None
    ELSE fixation_stim_on

\* the response-window onset left out of the reset of lines 88-95
Next_response_cues_on_NotCleared(row) ==
    IF Branch(row) = "SWITCHED" THEN Some(row.time_s)
    ELSE response_cues_on

Next_response_cues_on(row) ==
    IF Branch(row) = "SWITCHED" THEN Some(row.time_s)
    ELSE IF Branch(row) = "TRIAL_END" THEN None
    ELSE response_cues_on

Next_has_ManualRewardField(row) ==
    IF Branch(row) = "ManualReward" THEN TRUE ELSE has_ManualRewardField

\* the last-correct time moved by every resolution
Next_last_correct_s_Always(row) ==
    IF Branch(row) = "POSTSWITCH" THEN row.time_s ELSE last_correct_s

Next_last_correct_s(row) ==
    IF Branch(row) = "POSTSWITCH" /\ TakenAsCorrect THEN row.time_s
    ELSE last_correct_s

----------------------------------------------------------------------------
(* The call *)

Init ==
    /\ pc = "start"
    /\ error = "none"
    /\ raised_at = None
    /\ family \in Families
    /\ log_has_trigger \in BOOLEAN
    /\ seen_trigger = FALSE
    /\ nrows = 0
    /\ start_time_s = None
    /\ file_time_s = None
    /\ event = None
    /\ trial_mark = 0
    /\ fixation_rows = [In |-> 0, Out |-> 0]
    /\ curr_state = None
    /\ curve_target = None
    /\ curve_stim_on = None
    /\ curve_response = None
    /\ curve_switched = FALSE
    /\ fixation_stim_on = None
    /\ response_cues_on = None
    /\ began_fixation = None
    /\ has_ManualRewardField = FALSE
    /\ last_correct_s = InitialLastCorrect
    /\ split_ev = EmptySplitEv
    /\ TR = None
    /\ in_nvols = None
    /\ cond_events = None
    /\ end_time_s = None
    /\ nvols = None

\* an exception leaves the call: the frame is discarded, nothing is returned
Raise(err) ==
    /\ pc' = "failed"
    /\ error' = err
    /\ seen_trigger' = FALSE
    /\ nrows' = 0
    /\ start_time_s' = None
    /\ file_time_s' = None
    /\ event' = None
    /\ trial_mark' = 0
    /\ fixation_rows' = [In |-> 0, Out |-> 0]
    /\ curr_state' = None
    /\ curve_target' = None
    /\ curve_stim_on' = None
    /\ curve_response' = None
    /\ curve_switched' = FALSE
    /\ fixation_stim_on' = None
    /\ response_cues_on' = None
    /\ began_fixation' = None
    /\ has_ManualRewardField' = FALSE
    /\ last_correct_s' = InitialLastCorrect
    /\ split_ev' = EmptySplitEv
    /\ UNCHANGED <<family, log_has_trigger, outputs>>

\* the selection is never found empty
TriggerMissing_Never == FALSE

\* lines 62-64: mri_triggers.iloc[0] raises IndexError on an empty selection
TriggerMissing == ~log_has_trigger

\* lines 62-66
Normalize ==
    /\ pc = "start"
    /\ IF TriggerMissing
          THEN Raise("IndexError") /\ raised_at' = None
          ELSE /\ pc' = "scan"
               /\ start_time_s' = Some(TriggerTimeOf(family))
               /\ UNCHANGED <<error, raised_at, family, log_has_trigger,
                              seen_trigger, nrows, file_time_s, event,
                              trial_mark, fixation_rows, locals, outputs>>

\* the row as the loop sees it with the time columns left as the file has
\* them
Normalized_NotShifted(rec) == rec

\* lines 65-66: the row as the loop sees it
Normalized(rec) ==
    [rec EXCEPT !.time_s = @ - Get(start_time_s),
                !.record_time_s = @ - Get(start_time_s)]

\* the log can hold rec as its next row
NextInLog(rec) ==
    /\ IsTrigger(rec) =>
          /\ log_has_trigger
          /\ seen_trigger \/ rec.time_s = TriggerTimeOf(family)
    /\ (family = "ordered" /\ file_time_s # None) =>
          Get(file_time_s) <= rec.time_s
    /\ (family = "ordered" /\ ~seen_trigger) =>
          rec.time_s <= TriggerTimeOf(family)

\* lines 68-182, one row
ScanRow(rec) ==
    LET row == Normalized(rec) IN
    /\ pc = "scan"
    /\ nrows < MaxRowsOf(family)
    /\ NextInLog(rec)
    /\ IF RowError(row) # "none"
          THEN Raise(RowError(row)) /\ raised_at' = Some(row)
          ELSE /\ nrows' = nrows + 1
               /\ seen_trigger' = (seen_trigger \/ IsTrigger(row))
               /\ file_time_s' = Some(rec.time_s)
               /\ event' = Some(row)
               /\ trial_mark' = IF Branch(row) = "TRIAL_END"
                                    THEN Len(split_ev["PreSwitchCurves"])
                                    ELSE trial_mark
               /\ fixation_rows' =
                      IF row.event = "Fixation" /\ row.info = "In"
                          THEN [fixation_rows EXCEPT !.In = @ + 1]
                      ELSE IF row.event = "Fixation" /\ row.info = "Out"
                          THEN [fixation_rows EXCEPT !.Out = @ + 1]
                      ELSE fixation_rows
               /\ curr_state' = Next_curr_state(row)
               /\ curve_target' = Next_curve_target(row)
               /\ curve_stim_on' = Next_curve_stim_on(row)
               /\ curve_response' = Next_curve_response(row)
               /\ curve_switched' = Next_curve_switched(row)
               /\ fixation_stim_on' = Next_fixation_stim_on(row)
               /\ response_cues_on' = Next_response_cues_on(row)
               /\ began_fixation' = Next_began_fixation(row)
               /\ has_ManualRewardField' = Next_has_ManualRewardField(row)
               /\ last_correct_s' = Next_last_correct_s(row)
               /\ split_ev' = Next_split_ev(row)
               /\ UNCHANGED <<pc, error, raised_at, family,
                              log_has_trigger, start_time_s, outputs>>

\* the end of the log alone (the alternative of line 187)
EndTime_LastRow == Get(event).time_s

\* the last correct trial without the post-hoc margin
EndTime_NoMargin == Min(last_correct_s, Get(event).time_s)

\* lines 184-186
EndTime == Min(last_correct_s + PostHocMargin, Get(event).time_s)

\* the quotient without the clamp to in_nvols
NVolsOf_NoClamp(end, tr, nv) == IntDiv(end, tr)

\* lines 189-191
NVolsOf(end, tr, nv) == Min(IntDiv(end, tr), nv)

\* lines 193-201
DataFrame(evs) ==
    [i \in 1..Len(evs) |->
        [time |-> evs[i].time_s, dur |-> evs[i].dur_s,
         amplitude |-> evs[i].amplitude]]

\* only the conditions that have events
CondEventsOf_NonEmpty(ev) ==
    [k \in { c \in CondKeys : ev[c] # <<>> } |-> DataFrame(ev[k])]

\* lines 193-201
CondEventsOf(ev) == [k \in CondKeys |-> DataFrame(ev[k])]

\* lines 184-206, the end of the log
Return(tr, nv) ==
    /\ pc = "scan"
    /\ nrows >= 1
    /\ seen_trigger = log_has_trigger
    /\ pc' = "done"
    /\ TR' = Some(tr)
    /\ in_nvols' = Some(nv)
    /\ end_time_s' = Some(EndTime)
    /\ nvols' = Some(NVolsOf(EndTime, tr, nv))
    /\ cond_events' = Some(CondEventsOf(split_ev))
    /\ UNCHANGED <<error, raised_at, family, log_has_trigger, seen_trigger,
                   nrows, start_time_s, file_time_s, event, trial_mark,
                   fixation_rows, locals>>

Next ==
    \/ Normalize
    \/ \E k \in KindsOf(family), t \in FileTimes(family) :
            ScanRow(Row(k[1], k[2], k[3], t))
    \/ \E tr \in TRs, nv \in NVols : Return(tr, nv)

Spec == Init /\ [][Next]_vars

----------------------------------------------------------------------------
(* Vocabulary of the properties *)

Returned == pc = "done"

\* no trial of the log was resolved as correct
NoCorrectTrial == \A k \in AttendKeys : split_ev[k] = <<>>

\* the log held a ('Reward', 'Manual') row (the reward payloads of the model
\* differ from the legacy amplitude)
LegacyManualSeen ==
    \E i \in 1..Len(split_ev["Reward"]) :
        split_ev["Reward"][i].amplitude = LegacyManualAmplitude

QuotRange == (0 - (TimeStep + PostHocMargin))..(TimeStep + PostHocMargin)

\* floor(x / y) by its defining inequalities
FloorQuot(x, y) == CHOOSE q \in QuotRange : q * y <= x /\ x < (q + 1) * y

\* x / y rounded toward zero, by its defining inequalities
TruncQuot(x, y) ==
    CHOOSE q \in QuotRange :
        IF x >= 0 THEN q * y <= x /\ x < (q + 1) * y
        ELSE (q - 1) * y < x /\ x <= q * y

\* new is old with one row [onset, onset + dur) appended
AppendedSpan(old, new, onset, dur) ==
    /\ Len(new) = Len(old) + 1
    /\ SubSeq(new, 1, Len(old)) = old
    /\ new[Len(new)].time_s = onset
    /\ new[Len(new)].dur_s = dur

\* the step scans one more row and raises nothing; the row is Get(event')
Scanned == pc = "scan" /\ pc' = "scan" /\ nrows' = nrows + 1

\* the row is a POSTSWITCH row of a task other than Fixation
IsPostSwitch(row) ==
    row.event = "NewState" /\ row.info = "POSTSWITCH" /\ row.task # "Fixation"

----------------------------------------------------------------------------
(* C1: a log holding both a 'ManualReward' row and a ('Reward', 'Manual')  *)
(* row, in either order, raises the conflicting-encoding error and returns *)
(* nothing.  Stated of the code: no call returns on such a log.            *)
C1_DualEncodingNeverReturns ==
    Returned => ~(has_ManualRewardField /\ LegacyManualSeen)

(* C2 as stated: the returned volume count is between 1 and in_nvols.      *)
C2_CountBetweenOneAndInNvols ==
    Returned => 1 <= Get(nvols) /\ Get(nvols) <= Get(in_nvols)

(* C2 amended: the returned volume count is at most in_nvols; it is at     *)
(* least 1 exactly when the end time is at least one sampling period and   *)
(* negative exactly when the end time is at most minus one sampling        *)
(* period; when no trial was correct it is at most 0.                      *)
C2_CountAtMostInNvols ==
    Returned =>
        /\ Get(nvols) <= Get(in_nvols)
        /\ (Get(nvols) >= 1) <=> (Get(end_time_s) >= Get(TR))
        /\ (Get(nvols) < 0) <=> (Get(end_time_s) <= 0 - Get(TR))
        /\ NoCorrectTrial => Get(nvols) <= 0

C2_Witness ==
    /\ Returned
    /\ Get(nvols) = Get(in_nvols)
    /\ TruncQuot(Get(end_time_s), Get(TR)) > Get(in_nvols)

(* C3 as stated: the count is at most in_nvols and equals                  *)
(* floor(end_time / TR) whenever that floor is at most in_nvols, negative  *)
(* end times included.                                                     *)
C3_CountIsFloor ==
    Returned =>
        /\ Get(nvols) <= Get(in_nvols)
        /\ FloorQuot(Get(end_time_s), Get(TR)) <= Get(in_nvols)
              => Get(nvols) = FloorQuot(Get(end_time_s), Get(TR))

(* C3 amended: the count is at most in_nvols and equals end_time / TR      *)
(* rounded toward zero whenever that quotient is at most in_nvols; this is *)
(* the floor when end_time >= 0.                                           *)
C3_CountIsTruncation ==
    Returned =>
        /\ Get(nvols) <= Get(in_nvols)
        /\ TruncQuot(Get(end_time_s), Get(TR)) <= Get(in_nvols)
              => Get(nvols) = TruncQuot(Get(end_time_s), Get(TR))
        /\ (Get(end_time_s) >= 0
                /\ FloorQuot(Get(end_time_s), Get(TR)) <= Get(in_nvols))
              => Get(nvols) = FloorQuot(Get(end_time_s), Get(TR))

C3_Witness ==
    /\ Returned
    /\ Get(end_time_s) < 0
    /\ Get(nvols) = TruncQuot(Get(end_time_s), Get(TR))
    /\ Get(nvols) # FloorQuot(Get(end_time_s), Get(TR))

(* C4: the returned end time is min(L + 15, time of the final row), where  *)
(* L is -15 before the scan, becomes the time of each POSTSWITCH row that  *)
(* is resolved as a correct trial, and is changed by no other row.         *)
C4_EndTime ==
    /\ [](pc = "start" => last_correct_s = -15)
    /\ [](Returned =>
            Get(end_time_s) =
                Min(last_correct_s + 15, Get(event).time_s))
    /\ [][Scanned =>
            IF IsPostSwitch(Get(event')) /\ curve_response = Some("CORRECT")
            THEN last_correct_s' = Get(event').time_s
            ELSE last_correct_s' = last_correct_s]_vars
    /\ [][(pc = "start" \/ pc' = "done") =>
            last_correct_s' = last_correct_s]_vars

C4_Witness ==
    /\ Returned
    /\ ~NoCorrectTrial
    /\ Get(end_time_s) = last_correct_s + 15
    /\ Get(end_time_s) < Get(event).time_s

(* C5 as stated: a log with no correct trial returns end time 0 and        *)
(* volume count 0.                                                         *)
C5_NoCorrectGivesZero ==
    (Returned /\ NoCorrectTrial) =>
        Get(end_time_s) = 0 /\ Get(nvols) = 0

(* C5 amended: a log with no correct trial is not an error; it returns     *)
(* end time min(0, time of the final row), and end time 0 and volume       *)
(* count 0 when the final row is not earlier than the first trigger.       *)
C5_NoCorrectGivesMinZeroLast ==
    (Returned /\ NoCorrectTrial) =>
        /\ error = "none"
        /\ Get(end_time_s) = Min(0, Get(event).time_s)
        /\ Get(event).time_s >= 0 => Get(end_time_s) = 0 /\ Get(nvols) = 0

C5_Witness ==
    /\ Returned
    /\ NoCorrectTrial
    /\ split_ev["PreSwitchCurves"] # <<>>
    /\ Get(event).time_s > 0
    /\ Get(nvols) = 0

(* C6: a log with no ('MRI_Trigger', 'Received') row fails with an error   *)
(* and produces no output: no row is scanned, nothing is returned.         *)
C6_MissingTriggerFails ==
    ~log_has_trigger =>
        /\ pc \in {"start", "failed"}
        /\ pc = "failed" => error = "IndexError"
        /\ nrows = 0
        /\ split_ev = EmptySplitEv
        /\ cond_events = None /\ end_time_s = None /\ nvols = None

C6_Witness ==
    ~log_has_trigger /\ pc = "failed" /\ error = "IndexError"

RecognizedTasks ==
    { "Curve tracing", "Control CT", "Catch CT",
      "Keep busy", "keep busy", "KEEP BUSY" }

RecognizedResponses ==
    { None, Some("INCORRECT"), Some("FixationBreak"), Some("CORRECT") }

\* the row has a fixation payload, task label or latched response outside
\* the recognized values
UnrecognizedValue(row) ==
    \/ row.event = "Fixation" /\ row.info \notin {"In", "Out"}
    \/ IsPostSwitch(row) /\ row.task \notin RecognizedTasks
    \/ IsPostSwitch(row) /\ curve_response \notin RecognizedResponses

\* the row brings the second of the two manual-reward encodings
DualEncoding(row) ==
    \/ row.event = "ManualReward" /\ LegacyManualSeen
    \/ row.event = "Reward" /\ row.info = "Manual" /\ has_ManualRewardField

\* a failed call has returned nothing and scans no further row
FailureIsFinal ==
    /\ [](pc = "failed" =>
            cond_events = None /\ end_time_s = None /\ nvols = None)
    /\ [][pc = "failed" => pc' = "failed"]_vars
    /\ [](~log_has_trigger => pc \in {"start", "failed"})

(* C7: every fatal condition (missing trigger, fixation payload other than *)
(* In/Out, unrecognized task at a POSTSWITCH row, unrecognized response    *)
(* tag, dual manual-reward encoding) aborts at the offending row: no such  *)
(* row is scanned without raising, and a failed call returns nothing.      *)
C7_FatalConditionsAbort ==
    /\ FailureIsFinal
    /\ [][Scanned =>
            ~UnrecognizedValue(Get(event')) /\ ~DualEncoding(Get(event'))]_vars

(* C7 without the dual manual-reward encoding: the other fatal conditions  *)
(* abort at the offending row.                                             *)
C7_OtherFatalConditionsAbort ==
    /\ FailureIsFinal
    /\ [][Scanned => ~UnrecognizedValue(Get(event'))]_vars

(* C8: the returned mapping has exactly the 16 pre-declared condition      *)
(* keys, empty buckets included, and no row adds a key during the scan.    *)
C8_SixteenKeys ==
    /\ Cardinality(CondKeys) = 16
    /\ DOMAIN split_ev = CondKeys
    /\ Returned => DOMAIN Get(cond_events) = CondKeys

C8_Witness ==
    /\ Returned
    /\ Get(cond_events)["Reward"] # <<>>
    /\ Get(cond_events)["Fixating"] = <<>>

(* C9: a POSTSWITCH row of a non-Fixation task whose latched response is   *)
(* CORRECT appends exactly one event [stimulus onset, now) to              *)
(* Attend<T>_COR, T the payload of the most recent TargetLoc row, appends  *)
(* nothing to the not-correct buckets, and sets the last-correct time to   *)
(* now.                                                                    *)
C9_CorrectTrial ==
    /\ [][(Scanned /\ IsPostSwitch(Get(event'))
                /\ curve_response = Some("CORRECT")) =>
            LET row == Get(event')
                key == "Attend" \o Get(curve_target) \o "_COR"
            IN  /\ curve_target # None
                /\ AppendedSpan(split_ev[key], split_ev'[key],
                                Get(curve_stim_on),
                                row.time_s - Get(curve_stim_on))
                /\ \A k \in (AttendKeys \cup NotCorKeys
                                \cup {"CurveNotCOR"}) \ {key} :
                        split_ev'[k] = split_ev[k]
                /\ last_correct_s' = row.time_s]_vars
    /\ [][Scanned =>
            LET row == Get(event')
            IN  curve_target' =
                    IF row.event = "TargetLoc" THEN Some(row.info)
                    ELSE IF row.event = "NewState" /\ row.info = "TRIAL_END"
                        THEN None
                    ELSE curve_target]_vars

C9_Witness ==
    /\ pc = "scan"
    /\ curve_target = Some("DR")
    /\ Len(split_ev["AttendDR_COR"]) = 1
    /\ split_ev["AttendDR_COR"][1].time_s = 0
    /\ split_ev["AttendDR_COR"][1].dur_s = TimeStep
    /\ split_ev["CurveNotCOR"] = <<>>
    /\ last_correct_s = TimeStep

(* C10: a POSTSWITCH row of a non-Fixation task whose trial is not correct *)
(* is filed as CurveFalseHit (response INCORRECT), CurveNoResponse (no     *)
(* response, switched flag set) or CurveFixationBreak (no response and     *)
(* flag unset, or response FixationBreak): one event [stimulus onset, now) *)
(* is appended there and to CurveNotCOR; the Attend buckets and the        *)
(* last-correct time are unchanged.                                        *)
C10_NotCorrectTrial ==
    [][(Scanned /\ IsPostSwitch(Get(event'))
            /\ curve_response # Some("CORRECT")) =>
        LET row == Get(event')
            key == IF curve_response = Some("INCORRECT") THEN "CurveFalseHit"
                   ELSE IF curve_response = None /\ curve_switched
                       THEN "CurveNoResponse"
                   ELSE "CurveFixationBreak"
            dur == row.time_s - Get(curve_stim_on)
        IN  /\ curve_response \in
                  { None, Some("INCORRECT"), Some("FixationBreak") }
            /\ AppendedSpan(split_ev[key], split_ev'[key],
                            Get(curve_stim_on), dur)
            /\ AppendedSpan(split_ev["CurveNotCOR"], split_ev'["CurveNotCOR"],
                            Get(curve_stim_on), dur)
            /\ \A k \in (AttendKeys \cup NotCorKeys) \ {key} :
                    split_ev'[k] = split_ev[k]
            /\ last_correct_s' = last_correct_s]_vars

C10_Witness ==
    /\ pc = "scan"
    /\ Len(split_ev["CurveNoResponse"]) = 1
    /\ Len(split_ev["CurveFixationBreak"]) = 1
    /\ Len(split_ev["CurveNotCOR"]) = 2
    /\ NoCorrectTrial
    /\ last_correct_s = -15

\* the number of events in a bucket
Size(k) == Len(split_ev[k])

SizeOfAttend ==
    Size("AttendUL_COR") + Size("AttendDL_COR") + Size("AttendUR_COR")
        + Size("AttendDR_COR") + Size("AttendCenter_COR")

SizeOfNotCor ==
    Size("CurveFalseHit") + Size("CurveNoResponse")
        + Size("CurveFixationBreak")

(* C11: after every row of the scan, the number of PreSwitchCurves events  *)
(* equals the number of events in the five Attend*_COR buckets plus        *)
(* CurveFalseHit, CurveNoResponse and CurveFixationBreak, and the size of  *)
(* CurveNotCOR equals the sum of the sizes of those last three.            *)
C11_OneOutcomePerResolution ==
    /\ Size("PreSwitchCurves") = SizeOfAttend + SizeOfNotCor
    /\ Size("CurveNotCOR") = SizeOfNotCor

C11_Witness ==
    /\ pc = "scan"
    /\ Size("PreSwitchCurves") = 2
    /\ SizeOfAttend = 1
    /\ Size("CurveFixationBreak") = 1
    /\ Size("CurveNotCOR") = 1

\* the times of the log never decrease in log order
TimesInOrder == family = "ordered"

InstantKeys == { "HandLeft", "HandRight", "Reward" }

\* every returned event of the buckets keys has a duration in durs
ReturnedDurationsIn(keys, durs) ==
    \A k \in keys : \A i \in 1..Len(Get(cond_events)[k]) :
        Get(cond_events)[k][i].dur \in durs

(* C12 as stated: on every log on which the call returns, every event in   *)
(* every bucket has duration >= 0, and instantaneous events have duration  *)
(* exactly 0.                                                              *)
C12_DurationsNonNegative ==
    Returned =>
        /\ ReturnedDurationsIn(CondKeys, Nat)
        /\ ReturnedDurationsIn(InstantKeys, {0})

(* C12 amended: on every log on which the call returns, instantaneous      *)
(* events have duration exactly 0; when the times of the log never         *)
(* decrease in log order, every event in every bucket has duration >= 0.   *)
C12_DurationsNonNegativeInOrder ==
    Returned =>
        /\ ReturnedDurationsIn(InstantKeys, {0})
        /\ TimesInOrder => ReturnedDurationsIn(CondKeys, Nat)

C12_Witness ==
    /\ Returned
    /\ TimesInOrder
    /\ Get(cond_events)["Reward"] # <<>>
    /\ \E i \in 1..Len(Get(cond_events)["Fixating"]) :
            Get(cond_events)["Fixating"][i].dur = TimeStep

\* the reward payloads of the model, in hundredths
PayloadHundredths(info) == IF info = "0.1" THEN 10 ELSE 50

PayloadRewardEvents == { "ResponseReward", "TaskReward", "ManualReward" }

\* the amplitude the claim gives the Reward event of a reward row
ClaimedRewardAmplitude(row) ==
    IF row.event \in PayloadRewardEvents THEN PayloadHundredths(row.info)
    ELSE 4

IsRewardRow(row) ==
    \/ row.event \in PayloadRewardEvents
    \/ row.event = "Reward" /\ row.info = "Manual"

(* C13: every event in every bucket other than Reward has amplitude 1;     *)
(* every Reward event has duration 0; a ResponseReward, TaskReward or      *)
(* ManualReward row appends one event to Reward with the row's payload as  *)
(* amplitude, a ('Reward', 'Manual') row one with amplitude 0.04, and      *)
(* these rows append to no other bucket.                                   *)
C13_Amplitudes ==
    /\ [](\A k \in CondKeys \ {"Reward"} : \A i \in 1..Len(split_ev[k]) :
            split_ev[k][i].amplitude = 100)
    /\ [](\A i \in 1..Len(split_ev["Reward"]) :
            split_ev["Reward"][i].dur_s = 0)
    /\ [](Returned =>
            /\ \A k \in CondKeys \ {"Reward"} :
                  \A i \in 1..Len(Get(cond_events)[k]) :
                      Get(cond_events)[k][i].amplitude = 100
            /\ \A i \in 1..Len(split_ev["Reward"]) :
                  /\ Get(cond_events)["Reward"][i].dur = 0
                  /\ Get(cond_events)["Reward"][i].amplitude =
                        split_ev["Reward"][i].amplitude)
    /\ [][(Scanned /\ IsRewardRow(Get(event'))) =>
            LET row == Get(event')
                new == split_ev'["Reward"]
            IN  /\ AppendedSpan(split_ev["Reward"], new, row.time_s, 0)
                /\ new[Len(new)].amplitude = ClaimedRewardAmplitude(row)
                /\ \A k \in CondKeys \ {"Reward"} :
                        split_ev'[k] = split_ev[k]]_vars
    /\ [][(Scanned /\ ~IsRewardRow(Get(event'))) =>
            split_ev'["Reward"] = split_ev["Reward"]]_vars

C13_Witness ==
    /\ pc = "scan"
    /\ split_ev["HandLeft"] # <<>>
    /\ \E i, j, k \in 1..Len(split_ev["Reward"]) :
            /\ split_ev["Reward"][i].amplitude = 10
            /\ split_ev["Reward"][j].amplitude = 50
            /\ split_ev["Reward"][k].amplitude = 4

\* the onsets of the bucket never decrease in list order
OnsetsNonDecreasing(evs) ==
    \A i \in 1..Len(evs) : \A j \in i..Len(evs) :
        evs[i].time_s <= evs[j].time_s

\* old is the beginning of new
IsPrefix(old, new) ==
    Len(old) <= Len(new) /\ SubSeq(new, 1, Len(old)) = old

\* a scanned row only appends, the other steps of a call that does not
\* fail leave the buckets alone, and the returned rows keep the list order
AppendOnly ==
    /\ [][Scanned =>
            \A k \in CondKeys : IsPrefix(split_ev[k], split_ev'[k])]_vars
    /\ [][(pc' # "failed" /\ ~Scanned) => split_ev' = split_ev]_vars
    /\ [](Returned =>
            \A k \in CondKeys :
                /\ Len(Get(cond_events)[k]) = Len(split_ev[k])
                /\ \A i \in 1..Len(split_ev[k]) :
                        Get(cond_events)[k][i].time = split_ev[k][i].time_s)

(* C14 as stated: within every bucket, at every point of the scan, the     *)
(* onsets are non-decreasing in list order, and a bucket only ever grows   *)
(* by appending at its end.                                                *)
C14_OnsetsNonDecreasing ==
    /\ [](\A k \in CondKeys : OnsetsNonDecreasing(split_ev[k]))
    /\ AppendOnly

(* C14 amended: within every bucket, at every point of the scan, a bucket  *)
(* only ever grows by appending at its end, so the list order is the order *)
(* of the triggering rows; the onsets are non-decreasing in list order     *)
(* when the times of the log never decrease in log order.                  *)
C14_AppendOnlyAndOrderedWhenInOrder ==
    /\ [](TimesInOrder =>
            \A k \in CondKeys : OnsetsNonDecreasing(split_ev[k]))
    /\ AppendOnly

C14_Witness ==
    /\ pc = "scan"
    /\ TimesInOrder
    /\ Len(split_ev["Fixating"]) = 2
    /\ split_ev["Fixating"][1].time_s < split_ev["Fixating"][2].time_s

\* an event of the bucket was appended, with the given onset
AppendedAt(k, onset) ==
    /\ Len(split_ev'[k]) = Len(split_ev[k]) + 1
    /\ split_ev'[k][Len(split_ev'[k])].time_s = onset

(* C15: time zero is the time of the first ('MRI_Trigger', 'Received') row *)
(* of the log: it is subtracted from the time and the record time of every *)
(* row, the rows before it included, so that row's time becomes 0; later   *)
(* trigger rows do not change it, and the onsets of the events are times   *)
(* after the subtraction.                                                  *)
C15_TimeZeroIsFirstTrigger ==
    /\ [][Scanned =>
            LET row == Get(event')
                t == Get(file_time_s') - Get(start_time_s)
            IN  /\ start_time_s' = start_time_s
                /\ row.time_s = t
                /\ row.record_time_s = t + RecordLag
                /\ (IsTrigger(row) /\ ~seen_trigger) => row.time_s = 0
                /\ row.event = "Response_Initiate" =>
                        AppendedAt("Hand" \o row.info, t)
                /\ IsRewardRow(row) => AppendedAt("Reward", t)
                /\ (row.event = "Fixation" /\ row.info = "In") =>
                        began_fixation' = Some(t)
                /\ (row.event = "NewState" /\ row.info = "PRESWITCH") =>
                        curve_stim_on' = Some(t)
                /\ (row.event = "NewState" /\ row.info = "SWITCHED") =>
                        response_cues_on' = Some(t)
                /\ (row.event = "NewState" /\ row.info = "FIXATION_PERIOD"
                        /\ row.task = "Fixation") =>
                        fixation_stim_on' = Some(t)]_vars
    /\ [][pc = "scan" => start_time_s' \in {start_time_s, None}]_vars
    /\ [](Returned => start_time_s # None)

C15_Witness ==
    /\ pc = "scan"
    /\ event # None
    /\ Get(start_time_s) # 0
    /\ IsTrigger(Get(event))
    /\ Get(event).time_s = TimeStep
    /\ Len(split_ev["Reward"]) = 1
    /\ split_ev["Reward"][1].time_s = 0 - TimeStep

(* C16: trial resolution runs once per trial: since the last TRIAL_END row *)
(* (or the start of the log) at most one PreSwitchCurves event and at most *)
(* one outcome event have been appended, however many POSTSWITCH rows the  *)
(* trial contains.  The outcome events are as many as the PreSwitchCurves  *)
(* events, so trial_mark counts both at the last TRIAL_END.                *)
C16_OneResolutionPerTrial ==
    /\ Size("PreSwitchCurves") - trial_mark <= 1
    /\ (SizeOfAttend + SizeOfNotCor) - trial_mark <= 1

IsTrialEnd(row) == row.event = "NewState" /\ row.info = "TRIAL_END"

\* the per-trial fields that hold a value or none
TrialFields ==
    <<curve_target, curve_stim_on, curve_response, fixation_stim_on,
      response_cues_on>>

(* C17: a NewState/TRIAL_END row sets target, stimulus-onset time,         *)
(* response outcome, fixation-task onset and response-window onset to none *)
(* and the switched flag to false; every other row leaves each of them     *)
(* unchanged or sets it to a value (the flag to true).                     *)
C17_OnlyTrialEndClears ==
    [][Scanned =>
        IF IsTrialEnd(Get(event'))
        THEN /\ TrialFields' = <<None, None, None, None, None>>
             /\ curve_switched' = FALSE
        ELSE /\ \A i \in 1..Len(TrialFields) :
                    TrialFields'[i] = TrialFields[i] \/ TrialFields'[i] # None
             /\ curve_switched' = curve_switched \/ curve_switched']_vars

C17_Witness ==
    /\ pc = "scan"
    /\ event # None
    /\ IsTrialEnd(Get(event))
    /\ split_ev["ResponseCues"] # <<>>
    /\ SizeOfAttend = 1
    /\ TrialFields = <<None, None, None, None, None>>
    /\ ~curve_switched

(* C18: response capture is a latch: a ResponseGiven row records its       *)
(* payload as the response outcome only when none is recorded since the    *)
(* last TRIAL_END row (or the start of the log); a later ResponseGiven row *)
(* and every other row but TRIAL_END leave the outcome unchanged, and a    *)
(* POSTSWITCH row files the trial by the recorded, first, response.        *)
C18_ResponseLatch ==
    /\ [](pc = "start" => curve_response = None)
    /\ [][Scanned =>
            LET row == Get(event')
            IN  curve_response' =
                    IF IsTrialEnd(row) THEN None
                    ELSE IF row.event = "ResponseGiven"
                            /\ curve_response = None
                        THEN Some(row.info)
                    ELSE curve_response]_vars
    /\ [][(Scanned /\ IsPostSwitch(Get(event'))) =>
            /\ curve_response = Some("CORRECT") <=>
                    \E k \in AttendKeys : split_ev'[k] # split_ev[k]
            /\ curve_response = Some("INCORRECT") <=>
                    split_ev'["CurveFalseHit"] # split_ev["CurveFalseHit"]]_vars

C18_Witness ==
    /\ pc = "scan"
    /\ event # None
    /\ Get(event).event = "ResponseGiven"
    /\ Get(event).info = "INCORRECT"
    /\ curve_response = Some("CORRECT")

(* C19: a Fixation row with payload 'In' records its time as the start of  *)
(* a fixation interval and appends nothing; a Fixation row with payload    *)
(* 'Out' closes the open interval, appending exactly one Fixating event    *)
(* with onset the In time and duration Out time - In time (nothing when no *)
(* interval is open); a Fixation row with any other payload is fatal; no   *)
(* other row opens or closes an interval.                                  *)
C19_FixationIntervals ==
    /\ [][(Scanned /\ Get(event').event = "Fixation") =>
            LET row == Get(event')
            IN  /\ row.info \in {"In", "Out"}
                /\ row.info = "In" =>
                        /\ began_fixation' = Some(row.time_s)
                        /\ split_ev' = split_ev
                /\ row.info = "Out" =>
                        /\ began_fixation' = None
                        /\ \A k \in CondKeys \ {"Fixating"} :
                                split_ev'[k] = split_ev[k]
                        /\ IF began_fixation = None
                           THEN split_ev' = split_ev
                           ELSE AppendedSpan(split_ev["Fixating"],
                                    split_ev'["Fixating"],
                                    Get(began_fixation),
                                    row.time_s - Get(began_fixation))]_vars
    /\ [][(Scanned /\ Get(event').event # "Fixation") =>
            /\ began_fixation' = began_fixation
            /\ split_ev'["Fixating"] = split_ev["Fixating"]]_vars

C19_Witness ==
    /\ pc = "scan"
    /\ event # None
    /\ Get(event).event = "Fixation"
    /\ Get(event).info = "Out"
    /\ began_fixation = None
    /\ Len(split_ev["Fixating"]) = 1
    /\ split_ev["Fixating"][1].time_s = 0
    /\ split_ev["Fixating"][1].dur_s = TimeStep

IsSwitched(row) == row.event = "NewState" /\ row.info = "SWITCHED"

(* C20: a resolved POSTSWITCH row appends a ResponseCues event             *)
(* [response-window start, now) if and only if a NewState/SWITCHED row     *)
(* occurred since the last TRIAL_END row, whatever the outcome; its onset  *)
(* is the time of the most recent such SWITCHED row; no other row appends  *)
(* to ResponseCues.  The switched flag (lines 71-72, 92) tells whether a   *)
(* SWITCHED row occurred since the last TRIAL_END row.                     *)
C20_ResponseCues ==
    /\ [][Scanned =>
            LET row == Get(event')
            IN  /\ response_cues_on' =
                        IF IsTrialEnd(row) THEN None
                        ELSE IF IsSwitched(row) THEN Some(row.time_s)
                        ELSE response_cues_on
                /\ curve_switched' =
                        IF IsTrialEnd(row) THEN FALSE
                        ELSE IF IsSwitched(row) THEN TRUE
                        ELSE curve_switched]_vars
    /\ [](curve_switched <=> response_cues_on # None)
    /\ [][(Scanned /\ IsPostSwitch(Get(event'))) =>
            IF curve_switched
            THEN AppendedSpan(split_ev["ResponseCues"],
                     split_ev'["ResponseCues"], Get(response_cues_on),
                     Get(event').time_s - Get(response_cues_on))
            ELSE split_ev'["ResponseCues"] = split_ev["ResponseCues"]]_vars
    /\ [][(Scanned /\ ~IsPostSwitch(Get(event'))) =>
            split_ev'["ResponseCues"] = split_ev["ResponseCues"]]_vars

C20_Witness ==
    /\ pc = "scan"
    /\ Size("CurveNoResponse") = 1
    /\ Size("PreSwitchCurves") = 1
    /\ Len(split_ev["ResponseCues"]) = 1
    /\ split_ev["ResponseCues"][1].time_s = 0
    /\ split_ev["ResponseCues"][1].dur_s = TimeStep
    /\ split_ev["PreSwitchCurves"][1].time_s = 0 - TimeStep

\* the step raises an exception at a row of the scan; the row is
\* Get(raised_at')
RaisedAtRow == pc = "scan" /\ pc' = "failed" /\ raised_at' # None

\* a failed call returns nothing and stays failed
NothingAfterFailure ==
    /\ [](pc = "failed" =>
            cond_events = None /\ end_time_s = None /\ nvols = None)
    /\ [][pc = "failed" => pc' = "failed"]_vars

(* C21: at a POSTSWITCH resolution a latched response outcome that is none *)
(* of 'INCORRECT', 'FixationBreak' or 'CORRECT' is fatal: no such row is   *)
(* scanned without raising, a row with a known task, a stimulus onset and  *)
(* such an outcome raises the unhandled-response error, and the failed     *)
(* call returns no buckets.                                                *)
C21_UnhandledResponseIsFatal ==
    /\ [][(Scanned /\ IsPostSwitch(Get(event'))) =>
            curve_response \in RecognizedResponses]_vars
    /\ [][(RaisedAtRow /\ IsPostSwitch(Get(raised_at'))
                /\ Get(raised_at').task \in RecognizedTasks
                /\ curve_stim_on # None) =>
            (curve_response \notin RecognizedResponses
                <=> error' = "AssertResponse")]_vars
    /\ [][error' = "AssertResponse" =>
            RaisedAtRow /\ IsPostSwitch(Get(raised_at'))]_vars
    /\ NothingAfterFailure

C21_Witness ==
    /\ pc = "failed"
    /\ error = "AssertResponse"
    /\ IsPostSwitch(Get(raised_at))
    /\ cond_events = None

\* a NewState/POSTSWITCH row of the Fixation task
IsFixationPostSwitch(row) ==
    row.event = "NewState" /\ row.info = "POSTSWITCH" /\ row.task = "Fixation"

(* C22: a NewState/POSTSWITCH row of task 'Fixation' resolves nothing: no  *)
(* event, no error, no per-trial field changed.  One of task 'Curve        *)
(* tracing', 'Control CT', 'Catch CT' (exact) or 'Keep busy' (any case) is *)
(* resolved; any other task label is fatal, and the task is checked before *)
(* the stimulus onset.                                                     *)
C22_PostSwitchTasks ==
    /\ [][(Scanned /\ IsFixationPostSwitch(Get(event'))) =>
            /\ split_ev' = split_ev
            /\ TrialFields' = TrialFields
            /\ curve_switched' = curve_switched
            /\ last_correct_s' = last_correct_s]_vars
    /\ [][RaisedAtRow => ~IsFixationPostSwitch(Get(raised_at'))]_vars
    /\ [][(Scanned /\ IsPostSwitch(Get(event'))) =>
            /\ Get(event').task \in RecognizedTasks
            /\ Len(split_ev'["PreSwitchCurves"]) =
                    Len(split_ev["PreSwitchCurves"]) + 1]_vars
    /\ [][(RaisedAtRow /\ IsPostSwitch(Get(raised_at'))) =>
            IF Get(raised_at').task \notin RecognizedTasks
            THEN error' = "AssertTask"
            ELSE /\ error' # "AssertTask"
                 /\ curve_stim_on = None <=> error' = "AssertStimOn"]_vars

C22_Witness ==
    /\ pc = "scan"
    /\ event # None
    /\ IsPostSwitch(Get(event))
    /\ Get(event).task = "KEEP BUSY"
    /\ Size("PreSwitchCurves") = 1

IsPreSwitch(row) == row.event = "NewState" /\ row.info = "PRESWITCH"

(* C23: in every run that completes without error, each NewState/PRESWITCH *)
(* row (of any task) is preceded, since the most recent TRIAL_END row, by  *)
(* a TargetLoc row, and each POSTSWITCH row of a non-Fixation task by a    *)
(* PRESWITCH row: the target is set exactly by the TargetLoc rows since    *)
(* the last TRIAL_END row and the stimulus onset exactly by the PRESWITCH  *)
(* rows; a PRESWITCH row with no target or a POSTSWITCH row with no        *)
(* stimulus onset is not scanned but aborts the run.                       *)
C23_TargetBeforePreSwitchBeforePostSwitch ==
    /\ [](pc = "start" => curve_target = None /\ curve_stim_on = None)
    /\ [][Scanned =>
            LET row == Get(event')
            IN  /\ (curve_target' # None) <=>
                        \/ row.event = "TargetLoc"
                        \/ curve_target # None /\ ~IsTrialEnd(row)
                /\ (curve_stim_on' # None) <=>
                        \/ IsPreSwitch(row)
                        \/ curve_stim_on # None /\ ~IsTrialEnd(row)
                /\ IsPreSwitch(row) => curve_target # None
                /\ IsPostSwitch(row) => curve_stim_on # None]_vars
    /\ [][(RaisedAtRow /\ IsPreSwitch(Get(raised_at'))) =>
            curve_target = None /\ error' = "AssertTarget"]_vars
    /\ [][error' = "AssertStimOn" =>
            /\ RaisedAtRow
            /\ IsPostSwitch(Get(raised_at'))
            /\ curve_stim_on = None]_vars
    /\ NothingAfterFailure

C23_Witness ==
    /\ Returned
    /\ Size("PreSwitchCurves") = 1
    /\ curve_target # None
    /\ curve_stim_on # None
    /\ trial_mark = 0

RecognizedEvents ==
    { "NewState", "Fixation", "TargetLoc", "ResponseGiven",
      "Response_Initiate", "ResponseReward", "TaskReward", "ManualReward",
      "Reward" }

\* the row has an event type outside the vocabulary, or is a Reward row
\* whose info is not 'Manual'
Unmatched(row) ==
    \/ row.event \notin RecognizedEvents
    \/ row.event = "Reward" /\ row.info # "Manual"

(* C24: a row whose event type is outside the recognized vocabulary, and a *)
(* 'Reward' row whose info is not 'Manual', matches no branch: it leaves   *)
(* every run-state field and every bucket unchanged and raises no error.   *)
C24_UnmatchedRowsChangeNothing ==
    /\ [][(Scanned /\ Unmatched(Get(event'))) => locals' = locals]_vars
    /\ [][RaisedAtRow => ~Unmatched(Get(raised_at'))]_vars

C24_Witness ==
    /\ pc = "scan"
    /\ event # None
    /\ Get(event).event = "Reward"
    /\ Get(event).info = "Auto"
    /\ curve_stim_on # None
    /\ curr_state = Some("PRESWITCH")

\* the bucket has one more event after the step
Grew(k) == Len(split_ev'[k]) = Len(split_ev[k]) + 1

(* C25: after every row of the scan the switched flag is true if and only  *)
(* if the response-window onset is set: both are set by a NewState/        *)
(* SWITCHED row and cleared only by a TRIAL_END row.  So a POSTSWITCH row  *)
(* that files the trial as CurveNoResponse appends a ResponseCues event,   *)
(* and one that files it as CurveFixationBreak with no response recorded   *)
(* appends none.                                                           *)
C25_SwitchedIffCuesOnset ==
    /\ [](curve_switched <=> response_cues_on # None)
    /\ [][Scanned =>
            LET row == Get(event')
            IN  /\ IsSwitched(row) =>
                        curve_switched' /\ response_cues_on' # None
                /\ IsTrialEnd(row) =>
                        ~curve_switched' /\ response_cues_on' = None
                /\ (~IsSwitched(row) /\ ~IsTrialEnd(row)) =>
                        /\ curve_switched' = curve_switched
                        /\ response_cues_on' = response_cues_on]_vars
    /\ [][(Scanned /\ IsPostSwitch(Get(event'))) =>
            /\ Grew("CurveNoResponse") => Grew("ResponseCues")
            /\ (Grew("CurveFixationBreak") /\ curve_response = None) =>
                    split_ev'["ResponseCues"] = split_ev["ResponseCues"]]_vars

C25_Witness ==
    /\ pc = "scan"
    /\ Size("PreSwitchCurves") = 2
    /\ Size("CurveFixationBreak") = 1
    /\ Size("CurveNoResponse") = 1
    /\ Size("ResponseCues") = 1
    /\ curve_switched

IsFixationRow(row, info) == row.event = "Fixation" /\ row.info = info

(* C26: the number of Fixating events never exceeds the number of Fixation *)
(* 'In' rows nor the number of Fixation 'Out' rows: an 'Out' row with no   *)
(* open interval emits nothing and is not an error, a second 'In' row      *)
(* while an interval is open replaces the recorded start without emitting, *)
(* and an interval still open at the end of the log emits no event.        *)
C26_FixatingAtMostInAndOutRows ==
    /\ [](/\ Size("Fixating") <= fixation_rows.Out
          /\ Size("Fixating") + (IF began_fixation = None THEN 0 ELSE 1)
                <= fixation_rows.In)
    /\ [][(Scanned /\ IsFixationRow(Get(event'), "Out")
                /\ began_fixation = None) =>
            split_ev' = split_ev]_vars
    /\ [][(Scanned /\ IsFixationRow(Get(event'), "In")) =>
            /\ split_ev' = split_ev
            /\ began_fixation' = Some(Get(event').time_s)]_vars
    /\ [][RaisedAtRow =>
            /\ ~IsFixationRow(Get(raised_at'), "In")
            /\ ~IsFixationRow(Get(raised_at'), "Out")]_vars
    /\ [](Returned =>
            Len(Get(cond_events)["Fixating"]) = Size("Fixating"))

C26_Witness ==
    /\ Returned
    /\ fixation_rows = [In |-> 2, Out |-> 1]
    /\ began_fixation # None
    /\ Get(cond_events)["Fixating"] = <<>>

(* C27: the recorded fixation-interval start is changed only by Fixation   *)
(* rows: a NewState/TRIAL_END row leaves it unchanged, so an interval      *)
(* opened before a TRIAL_END row and closed after it yields one Fixating   *)
(* event from the In time to the Out time.                                 *)
C27_FixationStartSurvivesTrialEnd ==
    /\ [][(began_fixation' # began_fixation /\ pc' # "failed") =>
            Scanned /\ Get(event').event = "Fixation"]_vars
    /\ [][(Scanned /\ IsTrialEnd(Get(event'))) =>
            /\ began_fixation' = began_fixation
            /\ split_ev'["Fixating"] = split_ev["Fixating"]]_vars
    /\ [][(Scanned /\ IsFixationRow(Get(event'), "Out")
                /\ curr_state = Some("TRIAL_END")
                /\ began_fixation # None) =>
            AppendedSpan(split_ev["Fixating"], split_ev'["Fixating"],
                         Get(began_fixation),
                         Get(event').time_s - Get(began_fixation))]_vars

C27_Witness ==
    /\ pc = "scan"
    /\ event # None
    /\ IsTrialEnd(Get(event))
    /\ began_fixation = Some(0)
    /\ Get(event).time_s = TimeStep
    /\ curve_target = None

\* the step scans a row that precedes the first trigger row of the log
ScannedBeforeTrigger == Scanned /\ ~seen_trigger'

\* the row acts on the run state and the buckets as the same row would
\* after the trigger
ActsLikeAnyRow(row) ==
    /\ row.time_s = Get(file_time_s') - Get(start_time_s)
    /\ row.event = "TargetLoc" => curve_target' = Some(row.info)
    /\ IsPreSwitch(row) => curve_stim_on' = Some(row.time_s)
    /\ IsFixationRow(row, "In") => began_fixation' = Some(row.time_s)
    /\ IsRewardRow(row) => AppendedAt("Reward", row.time_s)
    /\ row.event = "Response_Initiate" =>
            AppendedAt("Hand" \o row.info, row.time_s)
    /\ IsPostSwitch(row) =>
            /\ AppendedAt("PreSwitchCurves", Get(curve_stim_on))
            /\ curve_response = Some("CORRECT") =>
                    last_correct_s' = row.time_s

(* C28 as stated: the rows that precede the first trigger row are not      *)
(* skipped: they are scanned with negative normalized times, update the    *)
(* run state and emit events like any other row.                           *)
C28_RowsBeforeTriggerNegative ==
    [][ScannedBeforeTrigger =>
        /\ Get(event').time_s < 0
        /\ ActsLikeAnyRow(Get(event'))]_vars

(* C28 amended: the rows that precede the first trigger row are not        *)
(* skipped: they are scanned with their time minus the trigger's time,     *)
(* which is negative exactly when the row is stamped earlier than the      *)
(* trigger and at most 0 when the times of the log never decrease; they    *)
(* update the run state and emit events like any other row.                *)
C28_RowsBeforeTriggerAreScanned ==
    [][ScannedBeforeTrigger =>
        /\ Get(event').time_s < 0 <=>
                Get(file_time_s') < Get(start_time_s)
        /\ TimesInOrder => Get(event').time_s <= 0
        /\ ActsLikeAnyRow(Get(event'))]_vars

C28_Witness ==
    /\ Returned
    /\ IsTrigger(Get(event))
    /\ nrows = 5
    /\ last_correct_s < 0
    /\ Size("AttendUL_COR") = 1
    /\ Get(cond_events)["AttendUL_COR"][1].time < 0
    /\ Get(end_time_s) < 0

====
